---- MODULE Spec2Model ----
(***************************************************************************)
(* dyndns: a dynamic-DNS reconciler for Route53 (src/src/main.rs).         *)
(*                                                                         *)
(* One run of main: get_external_ip, parse_host_info, get_hosted_zone_id,  *)
(* check_hosted_zone and, when the record is out of date,                  *)
(* update_hosted_zone.  The DNS provider (hosted zones, their resource     *)
(* record sets) and the IP service are the environment: their state is     *)
(* part of the model and every call to them may fail.                      *)
(*                                                                         *)
(* Strings the code inspects (contains, split, format!, ==) are sequences  *)
(* of one-character strings.  Strings it only compares as a whole and      *)
(* never builds (record values, the external IP) are TLA+ strings.         *)
(***************************************************************************)
EXTENDS Integers, Sequences, FiniteSets, TLC

\* ------------------------------------------------------------------ bounds

\* Most hosted zones an account holds.
MaxZones == 3
\* Hosted zones the provider returns in one page of list_hosted_zones
\* (Route53: 100), scaled down.
PageSize == 2
\* Most resource record sets a hosted zone holds at the start.
MaxRecords == 2
\* Most calls the operation harness (OpsSpec) makes.
MaxOps == 2

\* ----------------------------------------------------------------- strings

\* str::contains: `pat` occurs in `s` as a contiguous substring.
Contains(s, pat) ==
    \E i \in 0..(Len(s) - Len(pat)) : SubSeq(s, i + 1, i + Len(pat)) = pat

\* str::split(sep) collected: the pieces of `s` between occurrences of the
\* one-character separator `sep` (always at least one piece).
RECURSIVE SplitFrom(_, _, _, _)
SplitFrom(s, sep, i, cur) ==
    IF i > Len(s) THEN <<cur>>
    ELSE IF s[i] = sep THEN <<cur>> \o SplitFrom(s, sep, i + 1, <<>>)
    ELSE SplitFrom(s, sep, i + 1, Append(cur, s[i]))

Split(s, sep) == SplitFrom(s, sep, 1, <<>>)

\* format!("{}.{}.", subdomain, domain)
FullDomain(sub, dom) == sub \o <<".">> \o dom \o <<".">>

\* ------------------------------------------------------------ input values

DomainAB == <<"a", ".", "b">>
DomainCD == <<"c", ".", "d">>
Domains == {DomainAB, DomainCD}
SubH == <<"h">>
Subdomains == {SubH}

Ip1 == "1.2.3.4"
Ip2 == "5.6.7.8"
ExternalIps == {Ip1, Ip2}

\* ------------------------------------------------------------ hosted zones

HostedZonePrefix == <<"/", "h", "o", "s", "t", "e", "d", "z", "o", "n", "e", "/">>

\* The hosted zones an account may hold, each with the raw id the provider
\* lists it under.  The last one has a raw id without the path prefix.
ZoneUniverse ==
    << [name |-> <<"a", ".", "b", ".">>,
        id |-> HostedZonePrefix \o <<"Z", "1">>],
       [name |-> <<"x", "a", ".", "b", ".">>,
        id |-> HostedZonePrefix \o <<"Z", "2">>],
       [name |-> <<"c", ".", "d", ".">>,
        id |-> HostedZonePrefix \o <<"Z", "3">>],
       [name |-> <<"s", ".", "a", ".", "b", ".">>,
        id |-> <<"Z", "4">>] >>

ZoneSet == {ZoneUniverse[i] : i \in 1..Len(ZoneUniverse)}

MaxZonesCapped == IF MaxZones < Len(ZoneUniverse) THEN MaxZones ELSE Len(ZoneUniverse)

\* Every listing order of at most MaxZones distinct hosted zones.
ZoneLists ==
    UNION { { f \in [1..n -> ZoneSet] : \A i, j \in 1..n : i # j => f[i] # f[j] }
            : n \in 0..MaxZonesCapped }

\* The hosted zones of a list, as a set.
ZonesOf(zs) == {zs[i] : i \in 1..Len(zs)}

\* -------------------------------------------------- resource record sets

\* Option<Vec<ResourceRecord>>: None, or Some(values).
NoRecords == [some |-> FALSE, vec |-> <<>>]
SomeRecords(vals) == [some |-> TRUE, vec |-> vals]

NameApexAB == <<"a", ".", "b", ".">>
NameHAB == <<"h", ".", "a", ".", "b", ".">>
NameXHAB == <<"x", "h", ".", "a", ".", "b", ".">>
NameHCD == <<"h", ".", "c", ".", "d", ".">>

\* The provider's listing order of record names (labels compared from the
\* top-level one down) and of record types.
NameOrder == <<NameApexAB, NameHAB, NameXHAB, NameHCD>>
TypeOrder == <<"A", "AAAA">>

\* The resource record sets a hosted zone may hold at the start.
RecordUniverse ==
    { [name |-> NameHAB, type |-> "A", ttl |-> 60,
       resource_records |-> SomeRecords(<<Ip1>>)],
      [name |-> NameHAB, type |-> "A", ttl |-> 60,
       resource_records |-> SomeRecords(<<Ip1, Ip2>>)],
      [name |-> NameHAB, type |-> "A", ttl |-> 60,
       resource_records |-> SomeRecords(<<>>)],
      [name |-> NameHAB, type |-> "A", ttl |-> 0,
       resource_records |-> NoRecords],
      [name |-> NameHAB, type |-> "AAAA", ttl |-> 60,
       resource_records |-> SomeRecords(<<"::1">>)],
      [name |-> NameXHAB, type |-> "A", ttl |-> 60,
       resource_records |-> SomeRecords(<<Ip2>>)],
      [name |-> NameApexAB, type |-> "A", ttl |-> 60,
       resource_records |-> SomeRecords(<<Ip1>>)],
      [name |-> NameHCD, type |-> "A", ttl |-> 300,
       resource_records |-> SomeRecords(<<Ip2>>)] }

\* A record set is identified by (name, type) within a hosted zone.
SameKey(r, q) == r.name = q.name /\ r.type = q.type

UniqueKeys(S) == \A r, q \in S : SameKey(r, q) => r = q

\* The record stores a hosted zone may start with.
Stores ==
    { S \in SUBSET RecordUniverse : Cardinality(S) <= MaxRecords /\ UniqueKeys(S) }

\* ---------------------------------------------------------- the provider

\* Position of `x` in the tuple `order`.
IndexOf(order, x) == CHOOSE i \in 1..Len(order) : order[i] = x

\* Where (name, type) sorts in a hosted zone's listing.
Rank(name, type) == IndexOf(NameOrder, name) * Len(TypeOrder) + IndexOf(TypeOrder, type)

RECURSIVE SortByRank(_)
SortByRank(S) ==
    IF S = {} THEN <<>>
    ELSE LET m == CHOOSE r \in S : \A q \in S : Rank(r.name, r.type) <= Rank(q.name, q.type)
         IN  <<m>> \o SortByRank(S \ {m})

\* The provider's answer to list_resource_record_sets with start_record_name
\* and start_record_type: the zone's record sets in listing order, beginning
\* at the first one that sorts at or after (start_name, start_type).
ListResourceRecordSets(S, start_name, start_type) ==
    SortByRank({ r \in S : Rank(r.name, r.type) >= Rank(start_name, start_type) })

\* The hosted zones a request's hosted_zone_id names: the provider lists a
\* zone under the raw id /hostedzone/<id>.
ResolveHostedZone(zs, hz) == { z \in ZonesOf(zs) : z.id = HostedZonePrefix \o hz }

\* The provider keeps a record set only in a hosted zone its name belongs to:
\* the name is the zone's name, or ends with "." and the zone's name.
NameInZone(zone_name, name) ==
    \/ name = zone_name
    \/ /\ Len(name) > Len(zone_name)
       /\ SubSeq(name, Len(name) - Len(zone_name) + 1, Len(name)) = zone_name
       /\ name[Len(name) - Len(zone_name)] = "."

\* Whether the provider accepts the changes of a batch against the store S,
\* in order: UPSERT always, CREATE only of a record set that is not there.
RECURSIVE ChangesAccepted(_, _, _)
RECURSIVE ApplyChanges(_, _, _)
ApplyChange(S, c) == { r \in S : ~SameKey(r, c.resource_record_set) } \cup {c.resource_record_set}

ChangesAccepted(S, chs, i) ==
    IF i > Len(chs) THEN TRUE
    ELSE /\ \/ chs[i].action = "UPSERT"
            \/ /\ chs[i].action = "CREATE"
               /\ \A r \in S : ~SameKey(r, chs[i].resource_record_set)
         /\ ChangesAccepted(ApplyChange(S, chs[i]), chs, i + 1)

\* The store after the provider applied the changes of a batch, in order: a
\* change replaces the record set of the same (name, type) wholesale, or adds
\* it when there is none.
ApplyChanges(S, chs, i) ==
    IF i > Len(chs) THEN S
    ELSE ApplyChanges(ApplyChange(S, chs[i]), chs, i + 1)

\* Whether the provider accepts a batch for the hosted zone named zone_name
\* that holds the store S.
ChangeBatchAccepted(zone_name, S, chs) ==
    /\ \A k \in 1..Len(chs) : NameInZone(zone_name, chs[k].resource_record_set.name)
    /\ ChangesAccepted(S, chs, 1)

\* ------------------------------------------------------------- the program

TTL == 300

OkId(v) == [kind |-> "Ok", value |-> v, error |-> "None"]
ErrId(e) == [kind |-> "Err", value |-> <<>>, error |-> e]
PanicId == [kind |-> "Panic", value |-> <<>>, error |-> "None"]

OkBool(b) == [kind |-> "Ok", value |-> b, error |-> "None"]
ErrBool(e) == [kind |-> "Err", value |-> FALSE, error |-> e]
PanicBool == [kind |-> "Panic", value |-> FALSE, error |-> "None"]

\* hosted_zone.id().split("/").nth(2).expect(..): the third piece of the raw
\* id, a panic when there are fewer than three pieces.
ParseHostedZoneId(raw) ==
    LET pieces == Split(raw, "/")
    IN  IF Len(pieces) >= 3 THEN OkId(pieces[3]) ELSE PanicId

\* Faulty variant of get_hosted_zone_id_from: a later matching zone overrides an
\* earlier one (the loop does not return at its first match).
RECURSIVE get_hosted_zone_id_last_match(_, _, _)
get_hosted_zone_id_last_match(hzs, dom, i) ==
    IF i > Len(hzs) THEN ErrId("ZoneNotFoundError")
    ELSE LET rest == get_hosted_zone_id_last_match(hzs, dom, i + 1)
         IN  IF rest.kind # "Err" THEN rest
             ELSE IF Contains(hzs[i].name, dom) THEN ParseHostedZoneId(hzs[i].id)
             ELSE rest

\* get_hosted_zone_id: the loop over hosted_zones from index i on.
RECURSIVE get_hosted_zone_id_from(_, _, _)
get_hosted_zone_id_from(hzs, dom, i) ==
    IF i > Len(hzs) THEN ErrId("ZoneNotFoundError")
    ELSE IF Contains(hzs[i].name, dom) THEN ParseHostedZoneId(hzs[i].id)
    ELSE get_hosted_zone_id_from(hzs, dom, i + 1)

get_hosted_zone_id(hzs, dom) == get_hosted_zone_id_from(hzs, dom, 1)

\* Faulty variant of check_record_sets_from: a response without a usable
\* record set of the target name counts as out of date.
RECURSIVE check_record_sets_missing_is_stale(_, _, _, _)
check_record_sets_missing_is_stale(resp, full_domain, ip, i) ==
    IF i > Len(resp) THEN OkBool(TRUE)
    ELSE IF resp[i].name = full_domain
    THEN IF ~resp[i].resource_records.some THEN PanicBool
         ELSE IF Len(resp[i].resource_records.vec) > 0
         THEN OkBool(resp[i].resource_records.vec[1] # ip)
         ELSE check_record_sets_missing_is_stale(resp, full_domain, ip, i + 1)
    ELSE check_record_sets_missing_is_stale(resp, full_domain, ip, i + 1)

\* check_hosted_zone after the response arrived: the loop over
\* response.resource_record_sets from index i on.
RECURSIVE check_record_sets_from(_, _, _, _)
check_record_sets_from(resp, full_domain, ip, i) ==
    IF i > Len(resp) THEN ErrBool("RecordNotFoundError")
    ELSE IF resp[i].name = full_domain
    THEN IF ~resp[i].resource_records.some THEN PanicBool
         ELSE IF Len(resp[i].resource_records.vec) > 0
         THEN OkBool(resp[i].resource_records.vec[1] # ip)
         ELSE check_record_sets_from(resp, full_domain, ip, i + 1)
    ELSE check_record_sets_from(resp, full_domain, ip, i + 1)

check_record_sets(resp, full_domain, ip) == check_record_sets_from(resp, full_domain, ip, 1)

\* Faulty variant of ChangeBatch: the change is a Create, not an Upsert.
ChangeBatch_create(ip, dom, sub) ==
    [changes |-> << [action |-> "CREATE",
                     resource_record_set |->
                         [name |-> FullDomain(sub, dom), type |-> "A", ttl |-> TTL,
                          resource_records |-> SomeRecords(<<ip>>)]] >>]

\* Faulty variant of ChangeBatch: the record set is of the AAAA type.
ChangeBatch_aaaa(ip, dom, sub) ==
    [changes |-> << [action |-> "UPSERT",
                     resource_record_set |->
                         [name |-> FullDomain(sub, dom), type |-> "AAAA", ttl |-> TTL,
                          resource_records |-> SomeRecords(<<ip>>)]] >>]

\* update_hosted_zone: the change batch it builds.
ChangeBatch(ip, dom, sub) ==
    [changes |-> << [action |-> "UPSERT",
                     resource_record_set |->
                         [name |-> FullDomain(sub, dom), type |-> "A", ttl |-> TTL,
                          resource_records |-> SomeRecords(<<ip>>)]] >>]

\* Faulty variant of update_hosted_zone_effect: the external IP is added to the values
\* the target record set holds, instead of replacing them.
update_hosted_zone_effect_merge(S, ip, dom, sub) ==
    LET new == ChangeBatch(ip, dom, sub).changes[1].resource_record_set
        old == { r \in S : SameKey(r, new) }
    IN  { r \in S : ~SameKey(r, new) } \cup
        { [new EXCEPT !.resource_records =
              SomeRecords((IF old = {} THEN <<>>
                           ELSE (CHOOSE r \in old : TRUE).resource_records.vec) \o <<ip>>)] }

\* Faulty variant of update_hosted_zone_effect: the zone is left with the
\* written record set alone.
update_hosted_zone_effect_replace_all(S, ip, dom, sub) ==
    { ChangeBatch(ip, dom, sub).changes[1].resource_record_set }

\* update_hosted_zone: the store of the hosted zone after the provider applied
\* the batch the call submits.
update_hosted_zone_effect(S, ip, dom, sub) ==
    ApplyChanges(S, ChangeBatch(ip, dom, sub).changes, 1)

\* parse_host_info: the zones of the one list_hosted_zones response it reads.
FirstPage(zs) == SubSeq(zs, 1, IF Len(zs) < PageSize THEN Len(zs) ELSE PageSize)

\* ------------------------------------------------------------------- state

VARIABLES
    zones,           \* provider: the account's hosted zones, in listing order
    records,         \* provider: raw zone id -> the zone's resource record sets
    records0,        \* records as they were before the run (history)
    domain,          \* Opt.domain
    subdomain,       \* Opt.subdomain
    pc,              \* where the run is
    external_ip,     \* main: external_ip.origin
    hosted_zones,    \* main: hosted_zones
    hosted_zone_id,  \* main: hosted_zone_id
    response,        \* check_hosted_zone: response.resource_record_sets
    needs_update,    \* main: needs_update
    error,           \* the error the run or call ended with
    changes,         \* provider: the change requests submitted, in order (history)
    calls,           \* the calls made to the IP service and the provider (history)
    path,            \* the states the run went through (history)
    opLog            \* harness: the calls made and their results (history)

vars == <<zones, records, records0, domain, subdomain, pc, external_ip, hosted_zones,
          hosted_zone_id, response, needs_update, error, changes, calls, path, opLog>>

\* The provider's state: the record sets of one of Stores, each held by the
\* hosted zones of the account its name belongs to.
ProviderInit(zs) ==
    /\ zones = zs
    /\ \E S \in Stores :
          records = [id \in {z.id : z \in ZonesOf(zs)} |->
                        LET z == CHOOSE y \in ZonesOf(zs) : y.id = id
                        IN  { r \in S : NameInZone(z.name, r.name) }]
    /\ records0 = records
    /\ changes = <<>>
    /\ calls = <<>>

Init ==
    /\ \E zs \in ZoneLists : ProviderInit(zs)
    /\ domain \in Domains
    /\ subdomain \in Subdomains
    /\ pc = "Start"
    /\ external_ip = ""
    /\ hosted_zones = <<>>
    /\ hosted_zone_id = <<>>
    /\ response = <<>>
    /\ needs_update = FALSE
    /\ error = "None"
    /\ path = <<"Start">>
    /\ opLog = <<>>

Goto(p) == pc' = p /\ path' = Append(path, p)

Fail(e) == Goto("Failed") /\ error' = e

\* main line 160: get_external_ip().await?
get_external_ip ==
    /\ pc = "Start"
    /\ calls' = Append(calls, "ip_service")
    /\ \/ \E ip \in ExternalIps :
             /\ external_ip' = ip
             /\ Goto("IpResolved")
             /\ UNCHANGED error
       \/ \E e \in {"NetworkError", "ParseError"} :
             /\ Fail(e)
             /\ UNCHANGED external_ip
    /\ UNCHANGED <<zones, records, records0, domain, subdomain, hosted_zones,
                   hosted_zone_id, response, needs_update, changes, opLog>>

\* main line 161: parse_host_info(&client).await?
parse_host_info ==
    /\ pc = "IpResolved"
    /\ \/ /\ calls' = Append(calls, "get_hosted_zone_count")
          /\ Fail("NetworkError")
          /\ UNCHANGED hosted_zones
       \/ /\ calls' = calls \o <<"get_hosted_zone_count", "list_hosted_zones">>
          /\ Fail("NetworkError")
          /\ UNCHANGED hosted_zones
       \/ /\ calls' = calls \o <<"get_hosted_zone_count", "list_hosted_zones">>
          /\ hosted_zones' = FirstPage(zones)
          /\ Goto("ZonesListed")
          /\ UNCHANGED error
    /\ UNCHANGED <<zones, records, records0, domain, subdomain, external_ip,
                   hosted_zone_id, response, needs_update, changes, opLog>>

\* main line 163: get_hosted_zone_id(&hosted_zones, &domain)?
resolve_hosted_zone_id ==
    /\ pc = "ZonesListed"
    /\ LET r == get_hosted_zone_id(hosted_zones, domain)
       IN  \/ /\ r.kind = "Ok"
              /\ hosted_zone_id' = r.value
              /\ Goto("ZoneResolved")
              /\ UNCHANGED error
           \/ /\ r.kind = "Err"
              /\ Fail(r.error)
              /\ UNCHANGED hosted_zone_id
           \/ /\ r.kind = "Panic"
              /\ Goto("Panicked")
              /\ UNCHANGED <<hosted_zone_id, error>>
    /\ UNCHANGED <<zones, records, records0, domain, subdomain, external_ip,
                   hosted_zones, response, needs_update, changes, calls, opLog>>

\* main line 166: check_hosted_zone(&client, &hosted_zone_id, &external_ip.origin,
\* &domain, &subdomain).await?
check_hosted_zone ==
    /\ pc = "ZoneResolved"
    /\ calls' = Append(calls, "list_resource_record_sets")
    /\ \/ /\ Fail("NetworkError")
          /\ UNCHANGED <<response, needs_update>>
       \/ \E z \in ResolveHostedZone(zones, hosted_zone_id) :
             LET full_domain == FullDomain(subdomain, domain)
                 resp == ListResourceRecordSets(records[z.id], full_domain, "A")
                 r == check_record_sets(resp, full_domain, external_ip)
             IN  /\ response' = resp
                 /\ \/ /\ r.kind = "Ok"
                       /\ needs_update' = r.value
                       /\ Goto("Audited")
                       /\ UNCHANGED error
                    \/ /\ r.kind = "Err"
                       /\ Fail(r.error)
                       /\ UNCHANGED needs_update
                    \/ /\ r.kind = "Panic"
                       /\ Goto("Panicked")
                       /\ UNCHANGED <<needs_update, error>>
    /\ UNCHANGED <<zones, records, records0, domain, subdomain, external_ip,
                   hosted_zones, hosted_zone_id, changes, opLog>>

\* update_hosted_zone(&client, &hosted_zone_id, &external_ip.origin, &domain,
\* &subdomain).await? as main calls it
update_hosted_zone ==
    /\ LET batch == ChangeBatch(external_ip, domain, subdomain)
       IN  /\ calls' = Append(calls, "change_resource_record_sets")
           /\ changes' = Append(changes, [hosted_zone_id |-> hosted_zone_id,
                                          change_batch |-> batch])
           /\ \/ /\ Fail("UpdateRejectedError")
                 /\ UNCHANGED records
              \/ \E z \in ResolveHostedZone(zones, hosted_zone_id) :
                    /\ ChangeBatchAccepted(z.name, records[z.id], batch.changes)
                    /\ records' = [records EXCEPT
                                     ![z.id] = update_hosted_zone_effect(
                                                   @, external_ip, domain, subdomain)]
                    /\ Goto("Updated")
                    /\ UNCHANGED error
    /\ UNCHANGED <<zones, records0, domain, subdomain, external_ip, hosted_zones,
                   hosted_zone_id, response, needs_update, opLog>>

\* Faulty variant of update_if_needed: the update is made whatever the audit returned.
update_always ==
    /\ pc = "Audited"
    /\ update_hosted_zone

\* main lines 168-170: if needs_update { update_hosted_zone(..).await? }
update_if_needed ==
    /\ pc = "Audited"
    /\ needs_update
    /\ update_hosted_zone

\* main line 168: needs_update is false, the if body is not entered
skip_update ==
    /\ pc = "Audited"
    /\ ~needs_update
    /\ Goto("Skipped")
    /\ UNCHANGED <<zones, records, records0, domain, subdomain, external_ip, hosted_zones,
                   hosted_zone_id, response, needs_update, error, changes, calls, opLog>>

\* main line 172: Ok(())
finish ==
    /\ pc \in {"Updated", "Skipped"}
    /\ Goto("Done")
    /\ UNCHANGED <<zones, records, records0, domain, subdomain, external_ip, hosted_zones,
                   hosted_zone_id, response, needs_update, error, changes, calls, opLog>>

Next ==
    \/ get_external_ip
    \/ parse_host_info
    \/ resolve_hosted_zone_id
    \/ check_hosted_zone
    \/ update_if_needed
    \/ skip_update
    \/ finish

Spec == Init /\ [][Next]_vars

\* ------------------------------------------------- the operations, called

\* The zone lists the harness starts from: the first n zones of ZoneUniverse.
ZonePrefixes == { SubSeq(ZoneUniverse, 1, n) : n \in 0..MaxZonesCapped }

\* The hosted_zone_id arguments the harness passes; the last names no zone.
ZoneIdArgs == { <<"Z", "1">>, <<"Z", "2">>, <<"Z", "3">>, <<"Z", "9">> }

\* The caller holds one (hosted_zone_id, external_ip, domain, subdomain) and
\* calls check_hosted_zone and update_hosted_zone with it, in any order.
OpsInit ==
    /\ \E zs \in ZonePrefixes : ProviderInit(zs)
    /\ domain \in Domains
    /\ subdomain \in Subdomains
    /\ pc = "Harness"
    /\ external_ip \in ExternalIps
    /\ hosted_zones = <<>>
    /\ hosted_zone_id \in ZoneIdArgs
    /\ response = <<>>
    /\ needs_update = FALSE
    /\ error = "None"
    /\ path = <<"Harness">>
    /\ opLog = <<>>

Logged(op, kind, value, err, after) ==
    opLog' = Append(opLog, [op |-> op, kind |-> kind, value |-> value,
                            error |-> err, after |-> after])

\* check_hosted_zone(&client, hosted_zone_id, external_ip, domain, subdomain)
call_check_hosted_zone ==
    /\ pc = "Harness"
    /\ Len(opLog) < MaxOps
    /\ calls' = Append(calls, "list_resource_record_sets")
    /\ \/ /\ Logged("check_hosted_zone", "Err", FALSE, "NetworkError", records)
          /\ UNCHANGED response
       \/ \E z \in ResolveHostedZone(zones, hosted_zone_id) :
             LET full_domain == FullDomain(subdomain, domain)
                 resp == ListResourceRecordSets(records[z.id], full_domain, "A")
                 r == check_record_sets(resp, full_domain, external_ip)
             IN  /\ response' = resp
                 /\ Logged("check_hosted_zone", r.kind, r.value, r.error, records)
    /\ UNCHANGED <<zones, records, records0, domain, subdomain, pc, external_ip,
                   hosted_zones, hosted_zone_id, needs_update, error, changes, path>>

\* update_hosted_zone(&client, hosted_zone_id, external_ip, domain, subdomain)
call_update_hosted_zone ==
    /\ pc = "Harness"
    /\ Len(opLog) < MaxOps
    /\ LET batch == ChangeBatch(external_ip, domain, subdomain)
       IN  /\ calls' = Append(calls, "change_resource_record_sets")
           /\ changes' = Append(changes, [hosted_zone_id |-> hosted_zone_id,
                                          change_batch |-> batch])
           /\ \/ /\ Logged("update_hosted_zone", "Err", FALSE, "UpdateRejectedError",
                           records)
                 /\ UNCHANGED records
              \/ \E z \in ResolveHostedZone(zones, hosted_zone_id) :
                    /\ ChangeBatchAccepted(z.name, records[z.id], batch.changes)
                    /\ records' = [records EXCEPT
                                     ![z.id] = update_hosted_zone_effect(
                                                   @, external_ip, domain, subdomain)]
                    /\ Logged("update_hosted_zone", "Ok", FALSE, "None", records')
    /\ UNCHANGED <<zones, records0, domain, subdomain, pc, external_ip, hosted_zones,
                   hosted_zone_id, response, needs_update, error, path>>

OpsNext ==
    \/ call_check_hosted_zone
    \/ call_update_hosted_zone

OpsSpec == OpsInit /\ [][OpsNext]_vars

\* -------------------------------------------------------------- properties

\* The run went through state p.
Visited(p) == \E i \in 1..Len(path) : path[i] = p

Called(c) == \E i \in 1..Len(calls) : calls[i] = c

LastCall == calls[Len(calls)]

\* `{subdomain}.{domain}.`, the target name of the run.
TargetName == subdomain \o <<".">> \o domain \o <<".">>

\* get_hosted_zone_id has run on hosted_zones.
ZoneResolutionDone == Visited("ZonesListed") /\ pc # "ZonesListed"

\* The listed zones whose name contains the domain, by position.
Matching == { i \in 1..Len(hosted_zones) : Contains(hosted_zones[i].name, domain) }

FirstMatching == CHOOSE i \in Matching : \A j \in Matching : i <= j

\* The raw id is /hostedzone/<bare>, with a non-empty bare part.
WellFormedId(raw) ==
    /\ Len(raw) > Len(HostedZonePrefix)
    /\ SubSeq(raw, 1, Len(HostedZonePrefix)) = HostedZonePrefix

BareId(raw) == SubSeq(raw, Len(HostedZonePrefix) + 1, Len(raw))

\* The provider answered the record query of this run, so that the scan of
\* check_hosted_zone ran on `response`.
CheckAnswered ==
    /\ Called("list_resource_record_sets")
    /\ ~(pc = "Failed" /\ error = "NetworkError" /\ LastCall = "list_resource_record_sets")

\* The record sets of the response named as the target, by position.
Named == { i \in 1..Len(response) : response[i].name = TargetName }

FirstNamed == CHOOSE i \in Named : \A j \in Named : i <= j

\* The store of the zone the run selected, as it was when it was audited.
SelectedStore0 == records0[HostedZonePrefix \o hosted_zone_id]

SelectedStore == records[HostedZonePrefix \o hosted_zone_id]

TargetA(S) == { r \in S : r.name = TargetName /\ r.type = "A" }

\* C1: when the matched record set has at least one value, check_hosted_zone
\* returns, and returns false if and only if every value of the matched
\* record set equals the external IP.
C1_FalseIffEveryValueEqual ==
    (CheckAnswered /\ Named # {}
       /\ response[FirstNamed].resource_records.some
       /\ Len(response[FirstNamed].resource_records.vec) > 0)
    => /\ Visited("Audited")
       /\ (needs_update = FALSE) <=>
            (\A k \in 1..Len(response[FirstNamed].resource_records.vec) :
                response[FirstNamed].resource_records.vec[k] = external_ip)

\* C2: get_hosted_zone_id fails with the zone-not-found error exactly when
\* no listed zone's name contains the domain; otherwise its outcome is that
\* of the first listed zone whose name contains the domain, whatever follows
\* it: the id it returns is that zone's bare id.
C2_FirstMatchingZone ==
    ZoneResolutionDone =>
        /\ (Matching = {}) <=> (pc = "Failed" /\ error = "ZoneNotFoundError")
        /\ Matching # {} =>
              LET raw == hosted_zones[FirstMatching].id
              IN  IF WellFormedId(raw)
                  THEN Visited("ZoneResolved") /\ hosted_zone_id = BareId(raw)
                  ELSE ~Visited("ZoneResolved")

\* C2 witness: two listed zones contain the domain and the id returned is the
\* first one's, not the later one's.
C2_Witness ==
    /\ Visited("ZoneResolved")
    /\ Cardinality(Matching) >= 2
    /\ hosted_zone_id = BareId(hosted_zones[FirstMatching].id)
    /\ \E j \in Matching : j > FirstMatching /\ WellFormedId(hosted_zones[j].id)
                            /\ BareId(hosted_zones[j].id) # hosted_zone_id

\* C3: when the selected zone holds no A record set named as the target at
\* the audit, check_hosted_zone fails with the record-not-found error, no
\* change request is submitted and no such record set comes to exist.
C3_NoRecordNoUpdate ==
    (CheckAnswered /\ TargetA(SelectedStore0) = {})
    => /\ pc = "Failed"
       /\ error = "RecordNotFoundError"
       /\ changes = <<>>
       /\ TargetA(SelectedStore) = {}

\* C5: a change request is submitted only after check_hosted_zone returned
\* true in the run, and then exactly one; when it returned false the run goes
\* to Done through Skipped, submits nothing and leaves every zone's records
\* as they were.
C5_UpdateOnlyWhenStale ==
    /\ changes # <<>> => Visited("Audited") /\ needs_update /\ Len(changes) = 1
    /\ (Visited("Audited") /\ ~needs_update) =>
          /\ changes = <<>>
          /\ records = records0
          /\ ~Called("change_resource_record_sets")
          /\ pc \in {"Audited", "Skipped", "Done"}
          /\ pc = "Done" => Visited("Skipped") /\ ~Visited("Updated")
    /\ (Visited("Audited") /\ needs_update /\ pc # "Audited") =>
          /\ Len(changes) = 1
          /\ ~Visited("Skipped")

\* C5 witness: a run whose audit returned false is Done, through Skipped,
\* with no change request submitted.
C5_Witness ==
    /\ pc = "Done"
    /\ Visited("Audited")
    /\ ~needs_update
    /\ Visited("Skipped")
    /\ changes = <<>>

\* The one change request update_hosted_zone is to submit.
ExpectedChange ==
    [action |-> "UPSERT",
     resource_record_set |->
        [name |-> TargetName, type |-> "A", ttl |-> 300,
         resource_records |-> [some |-> TRUE, vec |-> <<external_ip>>]]]

\* C6: every batch submitted holds exactly one change: an Upsert of the A
\* record set named as the target, with TTL 300 and the external IP as its
\* only value; after a successful update the target record set holds the
\* external IP alone.
C6_SingleUpsert ==
    /\ \A i \in 1..Len(changes) :
          /\ Len(changes[i].change_batch.changes) = 1
          /\ changes[i].change_batch.changes[1] = ExpectedChange
          /\ changes[i].hosted_zone_id = hosted_zone_id
    /\ Visited("Updated") =>
          /\ Len(changes) = 1
          /\ TargetA(SelectedStore) = {ExpectedChange.resource_record_set}
          /\ \A r \in SelectedStore : r.name = TargetName /\ r.type = "A" =>
                r.resource_records.vec = <<external_ip>>

\* C6 witness: the update succeeded on a target record set that held two
\* values before; it holds the external IP alone afterwards.
C6_Witness ==
    /\ pc = "Updated"
    /\ \E r \in TargetA(SelectedStore0) : Len(r.resource_records.vec) = 2
    /\ \A r \in TargetA(SelectedStore) : r.resource_records.vec = <<external_ip>>

\* C8: parse_host_info returns every hosted zone of the account, so a zone
\* whose name contains the domain is found wherever it is listed.
C8_AllZonesListed ==
    Visited("ZonesListed") =>
        /\ hosted_zones = zones
        /\ (pc = "Failed" /\ error = "ZoneNotFoundError") =>
              \A i \in 1..Len(zones) : ~Contains(zones[i].name, domain)

\* C9: when the first record set named as the target has no values (none, or
\* an empty list), check_hosted_zone fails with the empty-record error.
C9_EmptyRecordError ==
    (CheckAnswered /\ Named # {}
       /\ (~response[FirstNamed].resource_records.some
           \/ response[FirstNamed].resource_records.vec = <<>>))
    => pc = "Failed" /\ error = "EmptyRecordError"

\* C10: for the first listed zone whose name contains the domain,
\* get_hosted_zone_id returns the bare id of a well-formed raw id, and fails
\* the run with the malformed-identifier error otherwise.
C10_BareIdOrMalformedError ==
    (ZoneResolutionDone /\ Matching # {}) =>
        LET raw == hosted_zones[FirstMatching].id
        IN  IF WellFormedId(raw)
            THEN Visited("ZoneResolved") /\ hosted_zone_id = BareId(raw)
            ELSE pc = "Failed" /\ error = "MalformedIdentifierError"

\* C4: in the harness (every call made with the same hosted_zone_id, external
\* IP, domain and subdomain), a check_hosted_zone call that follows a
\* successful update_hosted_zone call and is answered by the provider returns
\* false: it neither returns true, nor an error, nor panics.
C4_RoundTrip ==
    \A i \in 1..(Len(opLog) - 1) :
        (/\ opLog[i].op = "update_hosted_zone"
         /\ opLog[i].kind = "Ok"
         /\ opLog[i + 1].op = "check_hosted_zone"
         /\ opLog[i + 1].error # "NetworkError")
        => opLog[i + 1].kind = "Ok" /\ opLog[i + 1].value = FALSE

\* C4 witness: an update that changed the zone's records succeeded and the
\* check that followed it returned false.
C4_Witness ==
    \E i \in 1..(Len(opLog) - 1) :
        /\ opLog[i].op = "update_hosted_zone"
        /\ opLog[i].kind = "Ok"
        /\ opLog[i].after # records0
        /\ opLog[i + 1].op = "check_hosted_zone"
        /\ opLog[i + 1].kind = "Ok"
        /\ opLog[i + 1].value = FALSE

\* C7: in the harness, two successful update_hosted_zone calls in succession
\* with the same inputs leave every zone's records as the first call left
\* them.
C7_Idempotent ==
    \A i \in 1..(Len(opLog) - 1) :
        (/\ opLog[i].op = "update_hosted_zone"
         /\ opLog[i].kind = "Ok"
         /\ opLog[i + 1].op = "update_hosted_zone"
         /\ opLog[i + 1].kind = "Ok")
        => opLog[i + 1].after = opLog[i].after

\* C7 witness: the first of two successful updates in succession changed the
\* records, and the second left them as they were.
C7_Witness ==
    \E i \in 1..(Len(opLog) - 1) :
        /\ opLog[i].op = "update_hosted_zone"
        /\ opLog[i].kind = "Ok"
        /\ opLog[i].after # records0
        /\ opLog[i + 1].op = "update_hosted_zone"
        /\ opLog[i + 1].kind = "Ok"
        /\ records = opLog[i].after

\* The state the run was in before its last step.
StoppedFrom == path[Len(path) - 1]

\* The errors a stage fails with, by the state the stage starts from.
StageErrors(from) ==
    CASE from = "Start" -> {"NetworkError", "ParseError"}
      [] from = "IpResolved" -> {"NetworkError"}
      [] from = "ZonesListed" -> {"ZoneNotFoundError", "MalformedIdentifierError"}
      [] from = "ZoneResolved" -> {"NetworkError", "RecordNotFoundError", "EmptyRecordError"}
      [] from = "Audited" -> {"UpdateRejectedError"}
      [] OTHER -> {}

\* The calls of a run, in the order main makes them.
CallOrder ==
    <<"ip_service", "get_hosted_zone_count", "list_hosted_zones",
      "list_resource_record_sets", "change_resource_record_sets">>

\* C11: a run that a stage's failure stopped is in the terminal state Failed
\* with that stage's error; nothing follows the failure: it is the last state
\* of the run, and a run stopped before the update has submitted no change
\* request and changed no record.
C11_FailFast ==
    /\ \A i \in 1..(Len(path) - 1) : path[i] \notin {"Failed", "Panicked"}
    /\ error # "None" => pc = "Failed"
    /\ pc \in {"Failed", "Panicked"} =>
          /\ pc = "Failed"
          /\ error \in StageErrors(StoppedFrom)
          /\ StoppedFrom # "Audited" =>
                /\ changes = <<>>
                /\ ~Called("change_resource_record_sets")
                /\ records = records0

\* The steps the run's state machine allows (ZonesListed: the zones are
\* listed and the zone is not resolved yet).
AllowedSteps ==
    { <<"Start", "IpResolved">>, <<"IpResolved", "ZonesListed">>,
      <<"ZonesListed", "ZoneResolved">>, <<"ZoneResolved", "Audited">>,
      <<"Audited", "Updated">>, <<"Audited", "Skipped">>,
      <<"Updated", "Done">>, <<"Skipped", "Done">> }
    \cup { <<p, "Failed">> : p \in {"Start", "IpResolved", "ZonesListed",
                                     "ZoneResolved", "Audited"} }

\* C12: the run takes only the steps of its state machine; the calls are made
\* in main's order, each at most once, the zone listing after the IP is
\* resolved, the record query after the zone is resolved, the update after the
\* audit; and a run that can take no further step is Done or Failed.
C12_RunOrder ==
    /\ \A i \in 1..(Len(path) - 1) : <<path[i], path[i + 1]>> \in AllowedSteps
    /\ Len(calls) <= Len(CallOrder)
    /\ calls = SubSeq(CallOrder, 1, Len(calls))
    /\ Called("list_hosted_zones") => Visited("IpResolved")
    /\ Called("list_resource_record_sets") => Visited("ZoneResolved")
    /\ Called("change_resource_record_sets") => Visited("Audited")
    /\ ~(ENABLED Next) => pc \in {"Done", "Failed"}

\* What check_hosted_zone made of the response in this run.
AuditOutcome ==
    IF Visited("Audited") THEN OkBool(needs_update)
    ELSE IF pc = "Failed" THEN ErrBool(error)
    ELSE PanicBool

\* C13: the result of check_hosted_zone is the one the first record set named
\* exactly as the target gives on its own: record sets before it and after it,
\* a later one of the same name included, do not change it; with no record set
\* of that name the result is the record-not-found error.
C13_FirstNamedDecides ==
    CheckAnswered =>
        IF Named = {} THEN AuditOutcome = ErrBool("RecordNotFoundError")
        ELSE AuditOutcome =
                check_record_sets(<<response[FirstNamed]>>, TargetName, external_ip)

\* The record sets of a store other than the target's A record set.
OtherThanTargetA(S) == { r \in S : ~(r.name = TargetName /\ r.type = "A") }

\* C14 (state part): the zones that have records are those of the account; a
\* zone's records differ from what they were before the run only in the zone
\* the run selected, and there only in the A record set named as the target.
FrameInv ==
    /\ DOMAIN records = DOMAIN records0
    /\ DOMAIN records = { z.id : z \in ZonesOf(zones) }
    /\ \A id \in DOMAIN records0 :
          /\ records[id] # records0[id] =>
                Visited("ZoneResolved") /\ id = HostedZonePrefix \o hosted_zone_id
          /\ OtherThanTargetA(records[id]) = OtherThanTargetA(records0[id])

\* C14: a run changes at most the A record set named as the target in the
\* zone it selected; every other record set of that zone, every record set of
\* every other zone and the account's zones stay as they were, in every state
\* of the run, Done and Failed included.
C14_Frame == []FrameInv /\ [][zones' = zones]_vars

\* C14 witness: the update changed the records, and a record set other than
\* the target's A record set exists in the account, unchanged.
C14_Witness ==
    /\ pc = "Updated"
    /\ records # records0
    /\ \E id \in DOMAIN records0 : OtherThanTargetA(records0[id]) # {}

\* The zone named zone_name governs `name`: its name is a suffix of `name`
\* that starts at a label boundary.
Governs(zone_name, name) ==
    /\ Len(zone_name) <= Len(name)
    /\ SubSeq(name, Len(name) - Len(zone_name) + 1, Len(name)) = zone_name
    /\ Len(zone_name) < Len(name) => name[Len(name) - Len(zone_name)] = "."

\* C15: every change request a run submits goes to a hosted zone of the
\* account whose name governs the target name.
C15_ZoneGovernsTarget ==
    \A i \in 1..Len(changes) :
        /\ ResolveHostedZone(zones, changes[i].hosted_zone_id) # {}
        /\ \A z \in ResolveHostedZone(zones, changes[i].hosted_zone_id) :
              Governs(z.name, TargetName)

\* C15 witness: a change request was submitted while another listed zone,
\* whose name contains the domain, does not govern the target name.
C15_Witness ==
    /\ changes # <<>>
    /\ \E i \in Matching : ~Governs(hosted_zones[i].name, TargetName)

====
